---- MODULE Spec2Model ----
(***************************************************************************)
(* A model of daily.py: the Daily service (date resolution, fallback to    *)
(* the latest entry), its two storage drivers (SqliteDriver, FsDriver) and *)
(* the command runs of main().                                             *)
(*                                                                         *)
(* Strings are sequences of one-character strings, so that lower(),        *)
(* strip(), the date regex, int() and readlines() are computed and not     *)
(* assumed.  Dates on the clock are proleptic Gregorian ordinals, as in    *)
(* datetime.date.                                                          *)
(***************************************************************************)
EXTENDS Integers, Sequences, FiniteSets, TLC

(* ------------------------------------------------------------------ *)
(* Bounds of the model                                                 *)
(* ------------------------------------------------------------------ *)

\* most rows the table / most lines a file may hold before add is cut off
MaxEntries == 2
\* highest row id the table hands out before add is cut off
MaxId == 3
\* how many times midnight passes
MaxMidnights == 1

\* the length of the lookback of get_latest_entry: range(30)
LookbackDays == 30

(* ------------------------------------------------------------------ *)
(* Characters and strings                                              *)
(* ------------------------------------------------------------------ *)

Digits == {"0", "1", "2", "3", "4", "5", "6", "7", "8", "9"}

DigitVal(c) ==
    CASE c = "0" -> 0 [] c = "1" -> 1 [] c = "2" -> 2 [] c = "3" -> 3
      [] c = "4" -> 4 [] c = "5" -> 5 [] c = "6" -> 6 [] c = "7" -> 7
      [] c = "8" -> 8 [] c = "9" -> 9

DigitChar(n) ==
    CASE n = 0 -> "0" [] n = 1 -> "1" [] n = 2 -> "2" [] n = 3 -> "3"
      [] n = 4 -> "4" [] n = 5 -> "5" [] n = 6 -> "6" [] n = 7 -> "7"
      [] n = 8 -> "8" [] n = 9 -> "9"

\* the characters str.strip() removes (those the model's inputs use)
Whitespace == {" ", "\n", "\t"}

\* os.linesep on the platforms the file is opened in text mode on
LineSep == "\n"

\* str.lower(), character by character
LowerChar(c) ==
    CASE c = "T" -> "t" [] c = "Y" -> "y" [] c = "L" -> "l" [] c = "A" -> "a"
      [] c = "S" -> "s" [] c = "O" -> "o" [] c = "D" -> "d" [] c = "X" -> "x"
      [] c = "E" -> "e" [] c = "R" -> "r" [] c = "N" -> "n"
      [] OTHER -> c

Lower(s) == [i \in 1..Len(s) |-> LowerChar(s[i])]

RECURSIVE LStrip(_)
LStrip(s) ==
    IF s # <<>> /\ Head(s) \in Whitespace THEN LStrip(Tail(s)) ELSE s

RECURSIVE RStrip(_)
RStrip(s) ==
    IF s # <<>> /\ s[Len(s)] \in Whitespace
    THEN RStrip(SubSeq(s, 1, Len(s) - 1))
    ELSE s

\* str.strip()
Strip(s) == LStrip(RStrip(s))

\* str.replace("-", "")
RECURSIVE RemoveDashes(_)
RemoveDashes(s) ==
    IF s = <<>> THEN <<>>
    ELSE IF Head(s) = "-" THEN RemoveDashes(Tail(s))
    ELSE <<Head(s)>> \o RemoveDashes(Tail(s))

\* the value of a string of decimal digits
RECURSIVE DecimalValue(_)
DecimalValue(s) ==
    IF s = <<>> THEN 0
    ELSE 10 * DecimalValue(SubSeq(s, 1, Len(s) - 1)) + DigitVal(s[Len(s)])

\* Python's None, where a date string is expected
None == <<"None">>

(* ------------------------------------------------------------------ *)
(* The date pattern                                                    *)
(* ------------------------------------------------------------------ *)

\* \d{4}-\d{2}-\d{2} on the first ten characters
DatePrefix(s) ==
    /\ Len(s) >= 10
    /\ \A i \in {1, 2, 3, 4, 6, 7, 9, 10} : s[i] \in Digits
    /\ s[5] = "-"
    /\ s[8] = "-"

\* daily_entry_regex.match(s): in Python "$" matches at the end of the
\* string and also just before a newline that ends the string
RegexMatch(s) ==
    /\ DatePrefix(s)
    /\ \/ Len(s) = 10
       \/ Len(s) = 11 /\ s[11] = "\n"

\* _validate_date with the pattern left open at the end (no "$")
ValidateDate_Unanchored(s) ==
    IF s = <<>> \/ s = None THEN "IllegalDateException"
    ELSE IF ~DatePrefix(Strip(s)) THEN "IllegalDateException"
    ELSE "none"

\* Daily._validate_date: the name of the exception raised, or "none"
ValidateDate(s) ==
    IF s = <<>> \/ s = None THEN "IllegalDateException"
    ELSE IF ~RegexMatch(Strip(s)) THEN "IllegalDateException"
    ELSE "none"

(* ------------------------------------------------------------------ *)
(* The calendar of datetime.date                                       *)
(* ------------------------------------------------------------------ *)

IsLeap(y) == y % 4 = 0 /\ (y % 100 # 0 \/ y % 400 = 0)

DaysInMonth(y, m) ==
    CASE m = 2 -> IF IsLeap(y) THEN 29 ELSE 28
      [] m \in {4, 6, 9, 11} -> 30
      [] OTHER -> 31

RECURSIVE DaysBeforeMonth(_, _)
DaysBeforeMonth(y, m) ==
    IF m = 1 THEN 0 ELSE DaysBeforeMonth(y, m - 1) + DaysInMonth(y, m - 1)

DaysBeforeYear(y) ==
    (y - 1) * 365 + (y - 1) \div 4 - (y - 1) \div 100 + (y - 1) \div 400

\* date(y, m, d).toordinal()
ToOrdinal(y, m, d) == DaysBeforeYear(y) + DaysBeforeMonth(y, m) + d

\* date.fromordinal(n): the year, then the month and the day within it
YearOf(n) ==
    CHOOSE y \in (n \div 366)..(n \div 365 + 1) :
        DaysBeforeYear(y) < n /\ n <= DaysBeforeYear(y + 1)

MonthIn(y, k) ==
    CHOOSE m \in 1..12 :
        DaysBeforeMonth(y, m) < k /\ k <= DaysBeforeMonth(y, m) + DaysInMonth(y, m)

\* zero-padded decimal of the given width
RECURSIVE Padded(_, _)
Padded(n, width) ==
    IF width = 0 THEN <<>>
    ELSE Padded(n \div 10, width - 1) \o <<DigitChar(n % 10)>>

FormatYMD(y, m, d) ==
    Padded(y, 4) \o <<"-">> \o Padded(m, 2) \o <<"-">> \o Padded(d, 2)

FormatInYear(y, k) == FormatYMD(y, MonthIn(y, k), k - DaysBeforeMonth(y, MonthIn(y, k)))

\* date.fromordinal(n).strftime("%Y-%m-%d")
FormatDate(n) == FormatInYear(YearOf(n), n - DaysBeforeYear(YearOf(n)))

\* the day the clock shows at the start: 2029-12-31
FirstDay == ToOrdinal(2029, 12, 31)

\* FormatDate, tabulated once for the days the clock and the lookback reach
ClockDays == (FirstDay - LookbackDays - MaxMidnights)..(FirstDay + MaxMidnights)
DateTable == [n \in ClockDays |-> FormatDate(n)]

\* Daily.compute_date(days_offset) on a day whose ordinal is now
ComputeDate(now, days_offset) ==
    IF now + days_offset \in ClockDays
    THEN DateTable[now + days_offset]
    ELSE FormatDate(now + days_offset)

(* ------------------------------------------------------------------ *)
(* Exceptions and results                                              *)
(* ------------------------------------------------------------------ *)

NoExc == "none"

\* a value returned, or the exception raised in its place
Returned(v) == [exc |-> NoExc, val |-> v]
Raised(e, v) == [exc |-> e, val |-> v]

\* the effect of a mutating driver call: the store after it, the value
\* returned (Python's True and False are the integers 1 and 0) and the
\* exception raised, if any
Effect(st, v) == [st |-> st, exc |-> NoExc, val |-> v]
Failed(st, e) == [st |-> st, exc |-> e, val |-> 0]

(* ------------------------------------------------------------------ *)
(* SqliteDriver.  A store is [rows, closed, files]: the rows of table  *)
(* daily in the database file, whether the driver's connection was     *)
(* closed, and the files of the entries directory.                     *)
(* ------------------------------------------------------------------ *)

\* int(s): the digits of s, or ValueError
ParseInt(s) ==
    IF s = <<>> \/ \E i \in 1..Len(s) : s[i] \notin Digits
    THEN Raised("ValueError", 0)
    ELSE Returned(DecimalValue(s))

\* int(daily_date.replace("-", "")), tabulated once for the days of the clock
ClockDates == {DateTable[n] : n \in ClockDays}
IntTable == [d \in ClockDates |-> ParseInt(RemoveDashes(d))]

\* SqliteDriver._convert_date
ConvertDate(d) ==
    IF d = None THEN Raised("AttributeError", 0)
    ELSE IF d \in ClockDates THEN IntTable[d]
    ELSE ParseInt(RemoveDashes(d))

\* the rows of a date, ORDER BY id ASC
RECURSIVE OrderById(_)
OrderById(rs) ==
    IF rs = {} THEN <<>>
    ELSE LET first == CHOOSE r \in rs : \A q \in rs : r.id <= q.id
         IN  <<first>> \o OrderById(rs \ {first})

RowsOf(st, converted) == {r \in st.rows : r.date = converted}

\* the id sqlite gives a row inserted with id NULL into an INTEGER PRIMARY
\* KEY column: one more than the largest id in the table
NextId(rows) ==
    IF rows = {} THEN 1
    ELSE (CHOOSE m \in {r.id : r \in rows} : \A r \in rows : r.id <= m) + 1

\* has_entry with a COUNT over the whole table, the WHERE clause dropped
SqlHasEntry_AnyDate(st, d) ==
    LET c == ConvertDate(d)
    IN  IF c.exc # NoExc THEN Raised(c.exc, FALSE)
        ELSE IF st.closed THEN Raised("ProgrammingError", FALSE)
        ELSE Returned(Cardinality(st.rows) > 0)

\* SqliteDriver.has_entry
SqlHasEntry(st, d) ==
    LET c == ConvertDate(d)
    IN  IF c.exc # NoExc THEN Raised(c.exc, FALSE)
        ELSE IF st.closed THEN Raised("ProgrammingError", FALSE)
        ELSE Returned(Cardinality(RowsOf(st, c.val)) > 0)

\* SqliteDriver.get_entry
SqlGetEntry(st, d) ==
    IF st.closed THEN Raised("ProgrammingError", <<>>)
    ELSE LET c == ConvertDate(d)
         IN  IF c.exc # NoExc THEN Raised(c.exc, <<>>)
             ELSE LET rs == OrderById(RowsOf(st, c.val))
                  IN  Returned([i \in 1..Len(rs) |-> rs[i].desc])

\* SqliteDriver.add_entry
SqlAddEntry(st, d, content) ==
    LET c == ConvertDate(d)
    IN  IF c.exc # NoExc THEN Failed(st, c.exc)
        ELSE IF st.closed THEN Failed(st, "ProgrammingError")
        ELSE LET row == [id |-> NextId(st.rows), date |-> c.val,
                         desc |-> content, tag |-> <<>>]
             IN  Effect([st EXCEPT !.rows = @ \union {row}, !.closed = TRUE], 0)

\* SqliteDriver.nuke_entries: returns the rowcount of the DELETE
SqlNukeEntries(st, d) ==
    LET c == ConvertDate(d)
    IN  IF c.exc # NoExc THEN Failed(st, c.exc)
        ELSE IF st.closed THEN Failed(st, "ProgrammingError")
        ELSE Effect([st EXCEPT !.rows = @ \ RowsOf(st, c.val), !.closed = TRUE],
                    Cardinality(RowsOf(st, c.val)))

\* the rows with an id
RowsWithId(st, entry_id) == {r \in st.rows : r.id = entry_id}

\* SqliteDriver.remove_entry: DELETE ... WHERE id = ?, returns the rowcount
SqlRemoveEntry(st, d, entry_id) ==
    IF st.closed THEN Failed(st, "ProgrammingError")
    ELSE Effect([st EXCEPT !.rows = @ \ RowsWithId(st, entry_id), !.closed = TRUE],
                Cardinality(RowsWithId(st, entry_id)))

\* SqliteDriver.edit_entry: UPDATE ... SET desc = ? WHERE id = ?, returns
\* the rowcount
SqlEditEntry(st, d, entry_id, updated) ==
    IF st.closed THEN Failed(st, "ProgrammingError")
    ELSE Effect([st EXCEPT
                    !.rows = {IF r.id = entry_id THEN [r EXCEPT !.desc = updated] ELSE r :
                                 r \in @},
                    !.closed = TRUE],
                Cardinality(RowsWithId(st, entry_id)))

\* SqliteDriver.get_ids: the (id, desc) pairs of a date, ORDER BY id ASC
SqlGetIds(st, d) ==
    IF st.closed THEN Raised("ProgrammingError", <<>>)
    ELSE LET c == ConvertDate(d)
         IN  IF c.exc # NoExc THEN Raised(c.exc, <<>>)
             ELSE LET rs == OrderById(RowsOf(st, c.val))
                  IN  Returned([i \in 1..Len(rs) |-> [id |-> rs[i].id, desc |-> rs[i].desc]])

(* ------------------------------------------------------------------ *)
(* FsDriver.  files maps the date of each existing <date>.txt to the   *)
(* characters of the file.                                             *)
(* ------------------------------------------------------------------ *)

\* file.readlines(): the lines, each with the newline that ends it
RECURSIVE ReadLines(_, _)
ReadLines(content, line) ==
    IF content = <<>> THEN (IF line = <<>> THEN <<>> ELSE <<line>>)
    ELSE IF Head(content) = "\n"
         THEN <<line \o <<"\n">>>> \o ReadLines(Tail(content), <<>>)
         ELSE ReadLines(Tail(content), line \o <<Head(content)>>)

\* FsDriver.has_entry
FsHasEntry(st, d) == Returned(d \in DOMAIN st.files)

\* FsDriver.get_entry
FsGetEntry(st, d) ==
    IF ~FsHasEntry(st, d).val THEN Returned(<<>>)
    ELSE Returned(ReadLines(st.files[d], <<>>))

\* FsDriver.add_entry
FsAddEntry(st, d, content) ==
    LET old == IF FsHasEntry(st, d).val THEN st.files[d] ELSE <<>>
        new == old \o content \o <<LineSep>>
    IN  Effect([st EXCEPT !.files =
                    [f \in DOMAIN st.files \union {d} |->
                        IF f = d THEN new ELSE st.files[f]]], 0)

\* FsDriver.nuke_entries
FsNukeEntries(st, d) ==
    IF FsHasEntry(st, d).val
    THEN Effect([st EXCEPT !.files = [f \in DOMAIN st.files \ {d} |-> st.files[f]]], 1)
    ELSE Effect(st, 0)

\* the warnings of FsDriver.edit_entry
NoEntryWarning(d) ==
    [msg |-> "No entry for {asked}", asked |-> d, shown |-> None]

DeletedWarning(d) ==
    [msg |-> "Deleted entries file {asked} because it was empty", asked |-> d,
     shown |-> None]

\* what FsDriver.edit_entry leaves: the store and the warnings of its Result
Edited(st, warnings) == [st |-> st, exc |-> NoExc, warnings |-> warnings]

\* edit_entry without the removal of a file left empty
FsEditEntry_KeepEmpty(st, d, edited) ==
    IF ~FsHasEntry(st, d).val THEN Edited(st, <<NoEntryWarning(d)>>)
    ELSE Edited([st EXCEPT !.files[d] = edited], <<>>)

\* FsDriver.edit_entry, the editor leaving the file with the characters
\* edited
FsEditEntry(st, d, edited) ==
    IF ~FsHasEntry(st, d).val THEN Edited(st, <<NoEntryWarning(d)>>)
    ELSE LET saved == [st EXCEPT !.files[d] = edited]
         IN  IF Len(edited) = 0
             THEN Edited(FsNukeEntries(saved, d).st, <<DeletedWarning(d)>>)
             ELSE Edited(saved, <<>>)

(* ------------------------------------------------------------------ *)
(* Daily: the service over one driver                                  *)
(* ------------------------------------------------------------------ *)

\* Daily.has_entry
HasEntry(kind, st, d) ==
    IF kind = "sqlite" THEN SqlHasEntry(st, d) ELSE FsHasEntry(st, d)

\* Daily.get_latest_entry, from the i-th day back
RECURSIVE LatestFrom(_, _, _, _)
LatestFrom(kind, st, now, i) ==
    IF i >= LookbackDays THEN Returned(None)
    ELSE LET daily_date == ComputeDate(now, -i)
             has == HasEntry(kind, st, daily_date)
         IN  IF has.exc # NoExc THEN Raised(has.exc, None)
             ELSE IF has.val THEN Returned(daily_date)
             ELSE LatestFrom(kind, st, now, i + 1)

\* get_latest_entry with a scan that starts at yesterday
GetLatestEntry_SkipToday(kind, st, now) == LatestFrom(kind, st, now, 1)

GetLatestEntry(kind, st, now) == LatestFrom(kind, st, now, 0)

\* the warning of get_entry when the lookback finds nothing
NoEntriesWarning ==
    [msg |-> "No entries found for the last 30 days", asked |-> None, shown |-> None]

\* the fallback warning with the two dates taken for one another
FallbackWarning_Swapped(asked, shown) ==
    [msg |-> "Nothing found for {asked}, showing results for {shown}",
     asked |-> shown, shown |-> asked]

\* the warning of get_entry when it shows another date
FallbackWarning(asked, shown) ==
    [msg |-> "Nothing found for {asked}, showing results for {shown}",
     asked |-> asked, shown |-> shown]

\* a Result, or the exception raised in place of it
Result(items, warnings, daily_date) ==
    [exc |-> NoExc, items |-> items, warnings |-> warnings, daily_date |-> daily_date]

NoResult(e) == [exc |-> e, items |-> <<>>, warnings |-> <<>>, daily_date |-> <<>>]

DriverGetEntry(kind, st, d) ==
    IF kind = "sqlite" THEN SqlGetEntry(st, d) ELSE FsGetEntry(st, d)

\* the part of get_entry after the date is settled
ReadResult(kind, st, d, warnings) ==
    LET got == DriverGetEntry(kind, st, d)
    IN  IF got.exc # NoExc THEN NoResult(got.exc)
        ELSE Result(got.val, warnings, d)

\* get_entry without the return that follows the "No entries" warning
GetEntry_NoEarlyReturn(kind, st, now, d) ==
    LET has == HasEntry(kind, st, d)
    IN  IF has.exc # NoExc THEN NoResult(has.exc)
        ELSE IF has.val THEN ReadResult(kind, st, d, <<>>)
        ELSE LET latest == GetLatestEntry(kind, st, now)
             IN  IF latest.exc # NoExc THEN NoResult(latest.exc)
                 ELSE IF latest.val = None
                      THEN ReadResult(kind, st, latest.val,
                                      <<NoEntriesWarning, FallbackWarning(d, latest.val)>>)
                      ELSE ReadResult(kind, st, latest.val,
                                      <<FallbackWarning(d, latest.val)>>)

\* get_entry that looks back even when the date has an entry
GetEntry_AlwaysLookback(kind, st, now, d) ==
    LET latest == GetLatestEntry(kind, st, now)
    IN  IF latest.exc # NoExc THEN NoResult(latest.exc)
        ELSE IF latest.val = None
             THEN Result(<<>>, <<NoEntriesWarning>>, <<>>)
             ELSE ReadResult(kind, st, latest.val,
                             <<FallbackWarning(d, latest.val)>>)

\* Daily.get_entry
GetEntry(kind, st, now, d) ==
    LET has == HasEntry(kind, st, d)
    IN  IF has.exc # NoExc THEN NoResult(has.exc)
        ELSE IF has.val THEN ReadResult(kind, st, d, <<>>)
        ELSE LET latest == GetLatestEntry(kind, st, now)
             IN  IF latest.exc # NoExc THEN NoResult(latest.exc)
                 ELSE IF latest.val = None
                      THEN Result(<<>>, <<NoEntriesWarning>>, <<>>)
                      ELSE ReadResult(kind, st, latest.val,
                                      <<FallbackWarning(d, latest.val)>>)

\* Daily.add_entry
AddEntry(kind, st, d, content) ==
    IF kind = "sqlite" THEN SqlAddEntry(st, d, content) ELSE FsAddEntry(st, d, content)

\* Daily.nuke_entries
NukeEntries(kind, st, d) ==
    IF kind = "sqlite" THEN SqlNukeEntries(st, d) ELSE FsNukeEntries(st, d)

\* Daily.edit_entry: FsDriver.edit_entry takes the date alone
EditEntry(kind, st, d, entry_id, updated) ==
    IF kind = "sqlite" THEN SqlEditEntry(st, d, entry_id, updated)
    ELSE Failed(st, "TypeError")

\* Daily.remove_entry: FsDriver has no remove_entry
RemoveEntry(kind, st, d, entry_id) ==
    IF kind = "sqlite" THEN SqlRemoveEntry(st, d, entry_id)
    ELSE Failed(st, "AttributeError")

\* Daily.get_ids: FsDriver has no get_ids
GetIds(kind, st, d) ==
    IF kind = "sqlite" THEN SqlGetIds(st, d) ELSE Raised("AttributeError", <<>>)

\* Daily.translate_date
TranslateDate(kind, st, now, token) ==
    LET special_date == Strip(Lower(token))
    IN  IF special_date \in {<<"t", "o", "d", "a", "y">>, <<"t">>}
        THEN Returned(ComputeDate(now, 0))
        ELSE IF special_date \in {<<"y", "e", "s", "t", "e", "r", "d", "a", "y">>, <<"y">>}
        THEN Returned(ComputeDate(now, -1))
        ELSE IF special_date \in {<<"l", "a", "s", "t">>, <<"l">>}
        THEN GetLatestEntry(kind, st, now)
        ELSE IF ValidateDate(special_date) # NoExc
        THEN Raised(ValidateDate(special_date), None)
        ELSE Returned(special_date)

(* ------------------------------------------------------------------ *)
(* The command line: main() and run_subcommands()                      *)
(* ------------------------------------------------------------------ *)

\* " ".join(messages)
RECURSIVE Join(_)
Join(words) ==
    IF words = <<>> THEN <<>>
    ELSE IF Len(words) = 1 THEN words[1]
    ELSE words[1] \o <<" ">> \o Join(Tail(words))

\* confirm_deletion: what is typed at the prompt, lower-cased, is yes or y
ConfirmDeletion(answer) ==
    Lower(answer) \in {<<"y", "e", "s">>, <<"y">>}

\* the loop of the add command: one add_entry per -m group, until one raises
RECURSIVE AddAll(_, _, _)
AddAll(st, d, groups) ==
    IF groups = <<>> THEN Effect(st, 0)
    ELSE LET added == SqlAddEntry(st, d, Join(Head(groups)))
         IN  IF added.exc # NoExc THEN added
             ELSE AddAll(added.st, d, Tail(groups))

\* what a run leaves behind: the store, the exit status, the unhandled or
\* reported exception, the date the token was resolved to, and the Result
\* rendered
Outcome(st, exit, exc, date, res) ==
    [st |-> st, exit |-> exit, exc |-> exc, date |-> date,
     items |-> res.items, warnings |-> res.warnings]

\* run_subcommands; an exception that leaves it ends the process with status 1
RunSubcommands(st, now, command, msgs, answer, parsed_date) ==
    IF command = "add" THEN
        IF ~msgs.given
        THEN Outcome(st, 1, "TypeError", parsed_date, NoResult(NoExc))
        ELSE LET added == AddAll(st, parsed_date, msgs.groups)
             IN  Outcome(added.st, IF added.exc = NoExc THEN 0 ELSE 1, added.exc,
                         parsed_date, NoResult(NoExc))
    ELSE IF command = "edit" THEN
        \* daily.edit_entry(parsed_date) lacks entry_id and updated
        Outcome(st, 1, "TypeError", parsed_date, NoResult(NoExc))
    ELSE IF command = "nuke" THEN
        LET shown == GetEntry("sqlite", st, now, parsed_date)
            confirmed == ConfirmDeletion(answer)
            nuked == SqlNukeEntries(st, parsed_date)
        IN  IF shown.exc # NoExc
            THEN Outcome(st, 1, shown.exc, parsed_date, NoResult(NoExc))
            ELSE Outcome(nuked.st, IF nuked.exc = NoExc THEN 0 ELSE 1, nuked.exc,
                         parsed_date, NoResult(NoExc))
    ELSE
        LET result == GetEntry("sqlite", st, now, parsed_date)
        IN  Outcome(st, IF result.exc = NoExc THEN 0 ELSE 1, result.exc,
                    parsed_date, result)

\* SqliteDriver.__init__ and _init_db: the connection, and the storage
\* operations that set the database up
SqliteDriverInit(db) ==
    [st |-> [db EXCEPT !.closed = FALSE],
     ops |-> <<"connect", "CREATE TABLE IF NOT EXISTS", "CREATE INDEX IF NOT EXISTS",
              "commit">>]

\* main(): a new SqliteDriver on the database file, the date, the command.
\* The module is taken as loaded: the annotation of Daily.get_ids names
\* Tuple, which is not imported, and an interpreter that evaluates
\* annotations when the class body runs stops there with NameError.
MainRun(db, now, command, token, msgs, answer) ==
    LET st == SqliteDriverInit(db).st
        parsed == TranslateDate("sqlite", st, now, token)
    IN  IF parsed.exc # NoExc
        THEN Outcome(st, 1, parsed.exc, None, NoResult(NoExc))
        ELSE RunSubcommands(st, now, command, msgs, answer, parsed.val)

(* ------------------------------------------------------------------ *)
(* Inputs                                                              *)
(* ------------------------------------------------------------------ *)

\* the dates the calls are made with: 2030-01-01 (the day after the first),
\* 2029-12-31 and 2029-12-02, the last day of the lookback window of the
\* first day, which midnight moves out of the window
DateKeys == {FormatDate(FirstDay + 1), FormatDate(FirstDay),
             FormatDate(FirstDay - (LookbackDays - 1))}

X == <<"x">>
Y == <<"y">>
Texts == {X, Y}

\* what surrounds a token on the command line
Pads == {<<>>, <<" ">>, <<"\n">>}

Keywords ==
    {<<"t", "o", "d", "a", "y">>, <<"t">>,
     <<"y", "e", "s", "t", "e", "r", "d", "a", "y">>, <<"y">>,
     <<"l", "a", "s", "t">>, <<"l">>}

Cores ==
    Keywords \union DateKeys \union
    {<<"T">>, <<"L", "a", "s", "t">>, <<"Y">>,
     <<"2", "0", "2", "4", "-", "1", "3", "-", "4", "5">>,
     <<"2", "0", "3", "0", "-", "0", "2", "-", "3", "0">>,
     <<"2", "0", "3", "0", "-", "1", "-", "0", "1">>,
     <<"2", "0", "3", "0", "0", "1", "0", "1">>,
     <<"2", "0", "3", "0", "-", "0", "1", "-", "0", "1", "1">>,
     <<"2", "0", "3", "0", "/", "0", "1", "/", "0", "1">>,
     <<"x">>, <<>>}

\* every token translate_date is tried on
Tokens == {pre \o core \o post : pre \in Pads, core \in Cores, post \in Pads}

\* the tokens of the command runs
RunTokens ==
    {<<"t", "o", "d", "a", "y">>, <<" ", "Y">>, <<"l">>,
     FormatDate(FirstDay + 1), FormatDate(FirstDay - (LookbackDays - 1)),
     <<"x">>, <<>>}

\* arg.message: None without -m, else one list of words per -m
Messages ==
    {[given |-> FALSE, groups |-> <<>>],
     [given |-> TRUE, groups |-> <<<<X>>>>],
     [given |-> TRUE, groups |-> <<<<X>>, <<Y>>>>],
     [given |-> TRUE, groups |-> <<<<X, Y>>>>]}

Answers == {<<"y">>, <<"Y", "E", "S">>, <<"n">>, <<>>}

(* ------------------------------------------------------------------ *)
(* State                                                               *)
(* ------------------------------------------------------------------ *)

VARIABLES
    rows,     \* the rows of table daily in the database file
    closed,   \* whether the connection of the SqliteDriver in use was closed
    files,    \* the files of the entries directory, by date
    driver,   \* the driver the Daily in use was built with
    today,    \* date.today(), as an ordinal
    issued,   \* the highest id the table has handed out so far (history)
    last      \* the last call or command run, with what it returned

vars == <<rows, closed, files, driver, today, issued, last>>

Store == [rows |-> rows, closed |-> closed, files |-> files]

NoCall ==
    [op |-> "init", command |-> "", arg |-> <<>>, text |-> <<>>,
     msgs |-> [given |-> FALSE, groups |-> <<>>], answer |-> <<>>,
     exc |-> NoExc, num |-> 0, date |-> <<>>, items |-> <<>>,
     warnings |-> <<>>, exit |-> 0, id |-> 0, ids |-> <<>>, ops |-> <<>>]

Call(op, arg) == [NoCall EXCEPT !.op = op, !.arg = arg]

\* the lines all files hold
RECURSIVE LineCount(_)
LineCount(fs) ==
    IF DOMAIN fs = {} THEN 0
    ELSE LET d == CHOOSE f \in DOMAIN fs : TRUE
         IN  Len(ReadLines(fs[d], <<>>))
                 + LineCount([f \in DOMAIN fs \ {d} |-> fs[f]])

\* room for n more entries within the bounds
Room(n) ==
    IF driver = "sqlite"
    THEN Cardinality(rows) + n <= MaxEntries /\ NextId(rows) + n - 1 <= MaxId
    ELSE LineCount(files) + n <= MaxEntries

Init ==
    /\ rows = {}
    /\ closed = FALSE
    /\ files = <<>>
    /\ driver \in {"sqlite", "fs"}
    /\ today = FirstDay
    /\ issued = 0
    /\ last = NoCall

(* ------------------------------------------------------------------ *)
(* Actions: the calls on the Daily in use                              *)
(* ------------------------------------------------------------------ *)

\* the highest id handed out once the table holds the rows rs
IssuedWith(rs) ==
    CHOOSE m \in {issued} \union {r.id : r \in rs} :
        \A n \in {issued} \union {r.id : r \in rs} : n <= m

\* the ids the calls are made with
Ids == 1..MaxId

\* what the editor may leave in a file: nothing, a line, a line that no
\* newline ends
EditorTexts == {<<>>, <<"y", "\n">>, <<"x">>}

\* SqliteDriver(SQLITE_DB_FILE) or FsDriver(): a new driver on the same
\* storage, and a new Daily over it
NewDriver ==
    /\ closed' = FALSE
    /\ last' = Call("new", <<>>)
    /\ UNCHANGED <<rows, files, driver, today, issued>>

DoHasEntry(d) ==
    \E has \in {HasEntry(driver, Store, d)} :
        /\ last' = [Call("has_entry", d) EXCEPT
                        !.exc = has.exc, !.num = IF has.val THEN 1 ELSE 0]
        /\ UNCHANGED <<rows, closed, files, driver, today, issued>>

DoGetLatestEntry ==
    \E latest \in {GetLatestEntry(driver, Store, today)} :
        /\ last' = [Call("get_latest_entry", <<>>) EXCEPT
                        !.exc = latest.exc, !.date = latest.val]
        /\ UNCHANGED <<rows, closed, files, driver, today, issued>>

DoGetEntry(d) ==
    \E result \in {GetEntry(driver, Store, today, d)} :
        /\ last' = [Call("get_entry", d) EXCEPT
                        !.exc = result.exc, !.items = result.items,
                        !.warnings = result.warnings, !.date = result.daily_date]
        /\ UNCHANGED <<rows, closed, files, driver, today, issued>>

DoGetIds(d) ==
    \E got \in {GetIds(driver, Store, d)} :
        /\ last' = [Call("get_ids", d) EXCEPT !.exc = got.exc, !.ids = got.val]
        /\ UNCHANGED <<rows, closed, files, driver, today, issued>>

DoAddEntry(d, content) ==
    /\ Room(1)
    /\ \E added \in {AddEntry(driver, Store, d, content)} :
        /\ rows' = added.st.rows
        /\ closed' = added.st.closed
        /\ files' = added.st.files
        /\ issued' = IssuedWith(added.st.rows)
        /\ last' = [Call("add_entry", d) EXCEPT !.text = content, !.exc = added.exc]
    /\ UNCHANGED <<driver, today>>

DoNukeEntries(d) ==
    \E nuked \in {NukeEntries(driver, Store, d)} :
        /\ rows' = nuked.st.rows
        /\ closed' = nuked.st.closed
        /\ files' = nuked.st.files
        /\ last' = [Call("nuke_entries", d) EXCEPT !.exc = nuked.exc, !.num = nuked.val]
        /\ UNCHANGED <<driver, today, issued>>

DoRemoveEntry(d, entry_id) ==
    \E removed \in {RemoveEntry(driver, Store, d, entry_id)} :
        /\ rows' = removed.st.rows
        /\ closed' = removed.st.closed
        /\ files' = removed.st.files
        /\ last' = [Call("remove_entry", d) EXCEPT
                        !.id = entry_id, !.exc = removed.exc, !.num = removed.val]
        /\ UNCHANGED <<driver, today, issued>>

DoEditEntry(d, entry_id, updated) ==
    \E edited \in {EditEntry(driver, Store, d, entry_id, updated)} :
        /\ rows' = edited.st.rows
        /\ closed' = edited.st.closed
        /\ files' = edited.st.files
        /\ last' = [Call("edit_entry", d) EXCEPT
                        !.id = entry_id, !.text = updated, !.exc = edited.exc,
                        !.num = edited.val]
        /\ UNCHANGED <<driver, today, issued>>

\* FsDriver.edit_entry, called on the driver: the editor is run on the file
\* of the date and leaves it with the characters left
DoFsEditEntry(d, left) ==
    /\ driver = "fs"
    /\ \E edited \in {FsEditEntry(Store, d, left)} :
        /\ files' = edited.st.files
        /\ last' = [Call("fs_edit_entry", d) EXCEPT
                        !.text = left, !.exc = edited.exc, !.warnings = edited.warnings]
    /\ UNCHANGED <<rows, closed, driver, today, issued>>

DoTranslateDate(token) ==
    \E parsed \in {TranslateDate(driver, Store, today, token)} :
        /\ last' = [Call("translate_date", token) EXCEPT
                        !.exc = parsed.exc, !.date = parsed.val]
        /\ UNCHANGED <<rows, closed, files, driver, today, issued>>

\* one run of the program, from its command line to its exit
Main(command, token, msgs, answer) ==
    /\ driver = "sqlite"
    /\ command = "add" => Room(Len(msgs.groups))
    /\ \E run \in {MainRun(Store, today, command, token, msgs, answer)} :
        /\ rows' = run.st.rows
        /\ issued' = IssuedWith(run.st.rows)
        /\ last' = [Call("main", token) EXCEPT
                        !.command = command, !.msgs = msgs, !.answer = answer,
                        !.exc = run.exc, !.exit = run.exit, !.date = run.date,
                        !.items = run.items, !.warnings = run.warnings,
                        !.ops = SqliteDriverInit(Store).ops]
    /\ UNCHANGED <<closed, files, driver, today>>

\* the clock passes midnight
Midnight ==
    /\ today < FirstDay + MaxMidnights
    /\ today' = today + 1
    /\ last' = Call("midnight", <<>>)
    /\ UNCHANGED <<rows, closed, files, driver, issued>>

Next ==
    \/ NewDriver
    \/ \E d \in DateKeys : DoHasEntry(d)
    \/ DoGetLatestEntry
    \/ \E d \in DateKeys : DoGetEntry(d)
    \/ \E d \in DateKeys : DoGetIds(d)
    \/ \E d \in DateKeys, content \in Texts : DoAddEntry(d, content)
    \/ \E d \in DateKeys : DoNukeEntries(d)
    \/ \E d \in DateKeys, entry_id \in Ids : DoRemoveEntry(d, entry_id)
    \/ \E d \in DateKeys, entry_id \in Ids, updated \in Texts : DoEditEntry(d, entry_id, updated)
    \/ \E d \in DateKeys, left \in EditorTexts : DoFsEditEntry(d, left)
    \/ Midnight

\* the calls on one Daily, in any order, over either driver
Spec == Init /\ [][Next]_vars

NoMessages == [given |-> FALSE, groups |-> <<>>]

NextRun ==
    \/ \E token \in RunTokens : Main("get", token, NoMessages, <<>>)
    \/ \E token \in RunTokens : Main("edit", token, NoMessages, <<>>)
    \/ \E token \in RunTokens, msgs \in Messages : Main("add", token, msgs, <<>>)
    \/ \E token \in RunTokens, answer \in Answers : Main("nuke", token, NoMessages, answer)
    \/ Midnight

\* the runs of the program, one after the other, on one database file
InitRun == Init /\ driver = "sqlite"

SpecRun == InitRun /\ [][NextRun]_vars

NextResolve ==
    \/ NewDriver
    \/ \E d \in DateKeys : DoAddEntry(d, X)
    \/ \E token \in Tokens : DoTranslateDate(token)
    \/ Midnight

\* date resolution, over every token
SpecResolve == Init /\ [][NextResolve]_vars

(* ------------------------------------------------------------------ *)
(* What the properties speak of                                        *)
(* ------------------------------------------------------------------ *)

\* the backend in use reports an entry, or reports none, for a date
Reports(d) == HasEntry(driver, Store, d) = Returned(TRUE)
ReportsNone(d) == HasEntry(driver, Store, d) = Returned(FALSE)

\* the offsets of the lookback window: today, today-1, ..., today-29
Window == 0..(LookbackDays - 1)

\* the most recent date of the window for which an entry is reported
MostRecent ==
    LET k == CHOOSE i \in Window :
                 /\ Reports(ComputeDate(today, -i))
                 /\ \A j \in Window : j < i => ~Reports(ComputeDate(today, -j))
    IN  ComputeDate(today, -k)

\* the entries the storage holds for a date, as a new driver reads them
StoredIn(rs, fs, d) ==
    DriverGetEntry(driver, [rows |-> rs, closed |-> FALSE, files |-> fs], d).val

Stored(d) == StoredIn(rows, files, d)

\* a token that is no keyword and no date once lower-cased and trimmed
IsDateText(s) ==
    /\ Len(s) = 10
    /\ \A i \in {1, 2, 3, 4, 6, 7, 9, 10} : s[i] \in Digits
    /\ s[5] = "-"
    /\ s[8] = "-"

\* the pattern ^\d{4}-\d{2}-\d{2}$ as re.match applies it to a token
MatchesPattern(s) ==
    \/ IsDateText(s)
    \/ Len(s) = 11 /\ IsDateText(SubSeq(s, 1, 10)) /\ s[11] = "\n"

Normal(token) == Strip(Lower(token))

InvalidToken(token) ==
    /\ Normal(token) \notin Keywords
    /\ ~IsDateText(Normal(token))

\* a YYYY-MM-DD string that names a day of the calendar
IsCalendarDate(s) ==
    /\ IsDateText(s)
    /\ LET y == DecimalValue(SubSeq(s, 1, 4))
           m == DecimalValue(SubSeq(s, 6, 7))
           d == DecimalValue(SubSeq(s, 9, 10))
       IN  /\ y >= 1
           /\ m \in 1..12
           /\ d >= 1
           /\ d <= DaysInMonth(y, m)

(* ------------------------------------------------------------------ *)
(* Properties                                                          *)
(* ------------------------------------------------------------------ *)

\* C1: when the backend reports no entry for the date asked and some date
\* of the 30-day window has one, get_entry returns the stored entries of
\* the most recent such date, that date as the resolved date, and exactly
\* one warning, which names the date asked and the date shown.
C1_Fallback ==
    ( /\ last.op = "get_entry"
      /\ ReportsNone(last.arg)
      /\ \E i \in Window : Reports(ComputeDate(today, -i)) )
    => /\ last.exc = NoExc
       /\ last.items = Stored(MostRecent)
       /\ last.date = MostRecent
       /\ Len(last.warnings) = 1
       /\ last.warnings[1].asked = last.arg
       /\ last.warnings[1].shown = MostRecent
       /\ last.warnings[1].msg = "Nothing found for {asked}, showing results for {shown}"

\* C1 witness: a fallback happened, to a date that is not the newest of the
\* window, and it brought back entries
C1_Witness ==
    /\ last.op = "get_entry"
    /\ ReportsNone(last.arg)
    /\ \E i \in Window : Reports(ComputeDate(today, -i))
    /\ last.items # <<>>
    /\ last.date # last.arg
    /\ last.date # ComputeDate(today, 0)

\* C2: when the backend reports no entry for any date of the 30-day window
\* ending today, get_entry(today) returns a Result with no items and the one
\* warning "No entries found for the last 30 days", and leaves the storage
\* as it was.
C2_BoundedLookback ==
    [][ ( /\ last'.op = "get_entry"
          /\ last'.arg = ComputeDate(today, 0)
          /\ \A i \in Window : ReportsNone(ComputeDate(today, -i)) )
        => /\ last'.exc = NoExc
           /\ last'.items = <<>>
           /\ Len(last'.warnings) = 1
           /\ last'.warnings[1].msg = "No entries found for the last 30 days"
           /\ rows' = rows
           /\ files' = files ]_vars

\* C2 witness: get_entry(today) answered with the one warning while the
\* storage holds an entry older than the window
C2_Witness ==
    /\ last.op = "get_entry"
    /\ last.arg = ComputeDate(today, 0)
    /\ \A i \in Window : ReportsNone(ComputeDate(today, -i))
    /\ last.items = <<>>
    /\ Len(last.warnings) = 1
    /\ \E d \in DateKeys : Stored(d) # <<>>

\* C3: nuke_entries(d) on a date with no entries returns false and changes
\* nothing; on a date with entries it returns true and has_entry(d), asked
\* next of the same instance, returns false; in both backends.
C3_Nuke ==
    [][ last'.op = "nuke_entries" =>
          IF Stored(last'.arg) = <<>>
          THEN /\ last'.exc = NoExc
               /\ last'.num = 0
               /\ rows' = rows
               /\ files' = files
          ELSE /\ last'.exc = NoExc
               /\ last'.num # 0
               /\ HasEntry(driver, [rows |-> rows', closed |-> closed', files |-> files'],
                           last'.arg) = Returned(FALSE) ]_vars

\* C4: the add command with n >= 1 -m values, run through main, ends with n
\* new entries stored for the resolved date, one per message, in the order
\* given.
C4_AddStoresAll ==
    [][ ( /\ last'.op = "main"
          /\ last'.command = "add"
          /\ last'.msgs.given
          /\ last'.date # None )
        => StoredIn(rows', files', last'.date)
             = StoredIn(rows, files, last'.date)
                 \o [i \in 1..Len(last'.msgs.groups) |-> Join(last'.msgs.groups[i])] ]_vars

\* C5: add_entry(d, x) followed by get_entry(d) on the same backend instance
\* yields the entries d had before, in their order, followed by x.
C5_RoundTrip ==
    [][ last'.op = "add_entry" =>
          LET after == DriverGetEntry(driver,
                           [rows |-> rows', closed |-> closed', files |-> files'],
                           last'.arg)
          IN  /\ last'.exc = NoExc
              /\ after.exc = NoExc
              /\ after.val = Append(Stored(last'.arg), last'.text) ]_vars

\* C6: add_entry(d, x) called twice on one backend instance stores two
\* entries: the second call, like the first, adds one entry to those of d,
\* replaces nothing and does not fail.
C6_AppendTwice ==
    [][ ( /\ last.op = "add_entry"
          /\ last.exc = NoExc
          /\ last'.op = "add_entry"
          /\ last'.arg = last.arg
          /\ last'.text = last.text )
        => /\ last'.exc = NoExc
           /\ Len(StoredIn(rows', files', last'.arg)) = Len(Stored(last'.arg)) + 1 ]_vars

\* C7 as stated: translate_date returns the token itself for every token
\* that matches ^\d{4}-\d{2}-\d{2}$, and raises IllegalDateException for
\* every token that, lower-cased and trimmed, is neither a match nor a
\* keyword.
C7_AsStated ==
    last.op = "translate_date" =>
        /\ MatchesPattern(last.arg) => (last.exc = NoExc /\ last.date = last.arg)
        /\ InvalidToken(last.arg) => last.exc = "IllegalDateException"

\* C7 amended: translate_date returns the token with the surrounding
\* whitespace trimmed for every token whose trimmed form matches
\* ^\d{4}-\d{2}-\d{2}$, and raises IllegalDateException for every token
\* that, lower-cased and trimmed, is neither a match nor a keyword.
C7_Trimmed ==
    last.op = "translate_date" =>
        /\ IsDateText(Strip(last.arg)) => (last.exc = NoExc /\ last.date = Strip(last.arg))
        /\ InvalidToken(last.arg) => last.exc = "IllegalDateException"

\* C7 witness: a date followed by a newline was resolved to the date
C7_Witness ==
    /\ last.op = "translate_date"
    /\ Len(last.arg) = 11
    /\ last.arg[11] = "\n"
    /\ last.exc = NoExc
    /\ last.date = SubSeq(last.arg, 1, 10)

\* C8: every value translate_date returns without raising is a YYYY-MM-DD
\* string that names a day of the calendar, for every token and storage.
C8_ReturnsDateKey ==
    (last.op = "translate_date" /\ last.exc = NoExc) => IsCalendarDate(last.date)

\* C9: the nuke command deletes only after the prompt was answered yes;
\* after any other answer the stored entries are as before.
C9_NukeConfirmed ==
    [][ ( /\ last'.op = "main"
          /\ last'.command = "nuke"
          /\ ~ConfirmDeletion(last'.answer) )
        => rows' = rows ]_vars

\* C10: a command run exits nonzero exactly when the date token is invalid;
\* every other run ends without an unhandled exception and exits zero.
C10_ExitStatus ==
    last.op = "main" =>
        /\ (last.exit # 0) <=> InvalidToken(last.arg)
        /\ ~InvalidToken(last.arg) => last.exc = NoExc

\* the store after a step
StoreAfter == [rows |-> rows', closed |-> closed', files |-> files']

\* the dates of the lookback window, today first
WindowDates == {ComputeDate(today, -i) : i \in Window}

\* C11: a run whose date token is invalid reports the error and exits
\* nonzero without one storage operation (open, create, read, write,
\* commit) at any point of the run.
C11_NoStorageOnInvalid ==
    (last.op = "main" /\ InvalidToken(last.arg)) =>
        /\ last.exit # 0
        /\ last.ops = <<>>

\* C12: on the table backend, add_entry(d, x) on a date without entries,
\* followed by get_ids(d) on the same driver, returns exactly one (id, x)
\* pair, and an edit_entry by that id changes the content of that row and
\* leaves its id and its date.
C12_AddThenIds ==
    [][ ( /\ last'.op = "add_entry"
          /\ driver = "sqlite"
          /\ last'.exc = NoExc
          /\ StoredIn(rows, files, last'.arg) = <<>> )
        => LET got == SqlGetIds(StoreAfter, last'.arg)
           IN  /\ got.exc = NoExc
               /\ Len(got.val) = 1
               /\ got.val[1].desc = last'.text
               /\ LET edited == SqlEditEntry(StoreAfter, last'.arg, got.val[1].id, Y)
                  IN  /\ edited.exc = NoExc
                      /\ Cardinality(RowsWithId(edited.st, got.val[1].id)) = 1
                      /\ \A r \in RowsWithId(edited.st, got.val[1].id) :
                             /\ r.date = ConvertDate(last'.arg).val
                             /\ r.desc = Y ]_vars

\* C13: on the file backend, an edit that leaves the file of the date with
\* zero bytes removes the file, has_entry is false afterwards and the
\* result carries the deletion warning; a file left non-empty is kept as
\* the editor left it, without a warning.
C13_EmptyFileRemoved ==
    [][ ( /\ last'.op = "fs_edit_entry"
          /\ last'.arg \in DOMAIN files )
        => IF Len(last'.text) = 0
           THEN /\ last'.arg \notin DOMAIN files'
                /\ HasEntry("fs", StoreAfter, last'.arg) = Returned(FALSE)
                /\ last'.warnings = <<DeletedWarning(last'.arg)>>
           ELSE /\ last'.arg \in DOMAIN files'
                /\ files'[last'.arg] = last'.text
                /\ HasEntry("fs", StoreAfter, last'.arg) = Returned(TRUE)
                /\ last'.warnings = <<>> ]_vars

\* an edit emptied the file of a date: the file is gone and the warning
\* names the date
C13_Witness ==
    /\ last.op = "fs_edit_entry"
    /\ last.text = <<>>
    /\ last.warnings = <<DeletedWarning(last.arg)>>
    /\ last.arg \notin DOMAIN files

\* C14: get_latest_entry returns the first of today, today-1, ...,
\* today-29 for which the backend reports an entry, and none when the
\* backend reports no entry for each of them, whatever is stored further
\* back.
C14_LatestInWindow ==
    ( /\ last.op = "get_latest_entry"
      /\ \A d \in WindowDates : Reports(d) \/ ReportsNone(d) )
    => /\ last.exc = NoExc
       /\ IF \E d \in WindowDates : Reports(d)
          THEN last.date = MostRecent
          ELSE last.date = None

\* none is returned while an entry is stored 30 days back
C14_Witness ==
    /\ last.op = "get_latest_entry"
    /\ last.exc = NoExc
    /\ last.date = None
    /\ today = FirstDay + 1
    /\ Reports(ComputeDate(today, -LookbackDays))

\* C15: in a command run on the table backend the connection is closed only
\* after the last write: no storage operation of the run is executed on a
\* closed connection.
C15_NoUseAfterClose ==
    last.op = "main" => last.exc # "ProgrammingError"

\* C16: when has_entry(d) is true, get_entry(d) returns the items stored
\* for d, d as the date they belong to, and no warning.
C16_DirectHit ==
    (last.op = "get_entry" /\ Reports(last.arg)) =>
        /\ last.exc = NoExc
        /\ last.items = Stored(last.arg)
        /\ last.items # <<>>
        /\ last.date = last.arg
        /\ last.warnings = <<>>

\* an entry of a date older than the newest one is read by its own date
C16_Witness ==
    /\ last.op = "get_entry"
    /\ Reports(last.arg)
    /\ last.items # <<>>
    /\ \E d \in WindowDates : Reports(d)
    /\ last.arg # MostRecent

\* C17: an id the table gives to a new row is greater than every id it has
\* given before: the id of a deleted row is not given again.
C17_IdsNeverReused ==
    [][ \A i \in {r.id : r \in rows'} \ {r.id : r \in rows} : i > issued ]_vars

\* C18: on the table backend remove_entry(d, id) and edit_entry(d, id, text)
\* touch at most one row, the row with that id, and only when it is stored
\* under d: the rows of other dates stay as they are.
C18_OnlyUnderDate ==
    [][ ( /\ last'.op \in {"remove_entry", "edit_entry"}
          /\ driver = "sqlite" )
        => /\ Cardinality(rows \ rows') <= 1
           /\ \A r \in rows :
                  (r.id # last'.id \/ r.date # ConvertDate(last'.arg).val)
                      => r \in rows' ]_vars

\* C19: nuke_entries(d) and add_entry(d, x) change the entries of d only:
\* get_entry and has_entry of every other date answer after the call as
\* they did before it, on both backends.
C19_OtherDatesUntouched ==
    [][ ( /\ last'.op \in {"add_entry", "nuke_entries"}
          /\ last'.exc = NoExc )
        => \A e \in DateKeys \ {last'.arg} :
               /\ DriverGetEntry(driver, StoreAfter, e) = DriverGetEntry(driver, Store, e)
               /\ HasEntry(driver, StoreAfter, e) = HasEntry(driver, Store, e) ]_vars

\* C20: in every state the calls reach from the empty store, has_entry(d)
\* returns true exactly when get_entry(d) returns a list that is not empty,
\* for every date and on both backends.
C20_HasIffNonEmpty ==
    \A d \in DateKeys :
        Reports(d) <=>
            /\ DriverGetEntry(driver, Store, d).exc = NoExc
            /\ DriverGetEntry(driver, Store, d).val # <<>>

\* a row of the table was deleted, and on a new connection one date has
\* entries while another has none
C20_Witness ==
    /\ driver = "sqlite"
    /\ ~closed
    /\ Cardinality(rows) < issued
    /\ \E d \in DateKeys, e \in DateKeys :
           /\ Reports(d)
           /\ DriverGetEntry(driver, Store, d).val # <<>>
           /\ ReportsNone(e)
           /\ DriverGetEntry(driver, Store, e) = Returned(<<>>)

====
